---- MODULE Spec2Model ----
(***************************************************************************)
(* Model of header_fix.py and of the request scope it produces in          *)
(* src/curl.zig.                                                           *)
(*                                                                         *)
(* Part 1 (Spec, FairSpec): the request scope after the patch.  The patch  *)
(* text fixes: the registry (header_strings) is declared right after the   *)
(* `defer if (header_list)` statement, its deferred block frees every      *)
(* item and deinits the list, and `try header_strings.append(header_str)`  *)
(* runs before `header_list = c.curl_slist_append`.  Zig runs deferred     *)
(* statements in reverse order of declaration at scope exit, on every      *)
(* exit path.  Everything else of curl.zig (formatting, the outcome of the *)
(* foreign append, the transfer call, a repeated release) is not in        *)
(* header_fix.py and follows the design document.                          *)
(*                                                                         *)
(* Part 2 (PatchSpec): header_fix.py itself, on a text made of characters. *)
(***************************************************************************)
EXTENDS Integers, Sequences, FiniteSets, TLC

\* ---------------------------------------------------------------- bounds
MaxHeaders == 3
MaxReleaseCalls == 2
MaxText == 5

\* ------------------------------------------------------------- variables
VARIABLES
    \* request scope
    n,               \* number of header pairs handed to the scope
    mode,            \* foreign list-append keeps a "copy" or "retain"s the pointer
    pc,              \* position in the request scope
    k,               \* index of the header being processed (1-based)
    allocated,       \* buffers formatted so far (buffer b belongs to header b)
    header_strings,  \* the registry: sequence of owned buffers
    header_list,     \* the foreign list: sequence of the strings of its nodes
    freeCount,       \* freeCount[b]: number of allocator.free calls on buffer b
    listFreeCalls,   \* number of calls of the foreign list-free primitive
    nodesFreed,      \* number of list nodes freed by the foreign library
    deinitCalls,     \* number of header_strings.deinit() calls
    releaseCalls,    \* number of release() calls on the adapter
    transfer,        \* "none", "running", "ok", "failed"
    err,             \* "none", "OutOfMemory", "ForeignAppendFailed"
    \* patch script
    text,            \* content of src/curl.zig before the script runs
    lines,           \* the script's list `lines`
    ppc,             \* position in the script
    out,             \* content of src/curl.zig after the write
    printed          \* the script printed its success message

reqVars == <<n, mode, pc, k, allocated, header_strings, header_list, freeCount,
             listFreeCalls, nodesFreed, deinitCalls, releaseCalls, transfer, err>>
patchVars == <<text, lines, ppc, out, printed>>
vars == <<n, mode, pc, k, allocated, header_strings, header_list, freeCount,
          listFreeCalls, nodesFreed, deinitCalls, releaseCalls, transfer, err,
          text, lines, ppc, out, printed>>

Buffers == 1..(MaxHeaders + 1)

\* ============================================================ Part 1
\* ---------------------------------------------------------------- helpers
RECURSIVE SeqSum(_)
SeqSum(s) == IF s = <<>> THEN 0 ELSE Head(s) + SeqSum(Tail(s))

Range(s) == {s[i] : i \in 1..Len(s)}

NoDuplicates(s) == Cardinality(Range(s)) = Len(s)

Count(s, x) == Cardinality({i \in 1..Len(s) : s[i] = x})

\* ---------------------------------------------------- the patched scope
\* `var header_strings = std.ArrayList([]const u8).init(self.allocator);`
HeaderStringsInit == <<>>

\* `var header_list = null`: the empty-list sentinel
EmptyList == <<>>

RegistryAppendDrop(reg, b) == reg

RegistryAppendTwice(reg, b) == Append(Append(reg, b), b)

\* `try header_strings.append(header_str);` on success: the item is added
RegistryAppend(reg, b) == Append(reg, b)

CatchIgnoreRegister(ok) == "append"

\* `try`: a failed append leaves the scope, a successful one goes on to the
\* statement that follows, `header_list = c.curl_slist_append`
TryRegister(ok) == IF ok THEN "append" ELSE "exit"

FreeItemsSkipLast(fc, reg) ==
    [b \in DOMAIN fc |-> fc[b] + Count(SubSeq(reg, 1, Len(reg) - 1), b)]

\* `for (header_strings.items) |header_str| self.allocator.free(header_str);`
FreeItems(fc, reg) == [b \in DOMAIN fc |-> fc[b] + Count(reg, b)]

ReleaseAllInInnerScope == pc \in {"exit", "transfer"}

\* `defer { ... }` declared after `defer if (header_list)`: runs when the scope
\* exits, before the header_list defer
ReleaseAllEnabled == pc = "exit"

CleanupOnSuccessOnly(e) == IF e = "ok" THEN "exit" ELSE "done"

\* deferred statements run on every exit of the scope, whatever the error
DeferredOnExit(e) == "exit"

HandleAlwaysFreed(h) == TRUE

HandleIsEmpty(h) == h = EmptyList

\* `defer if (header_list)`: the list-free primitive runs only on a non-empty
\* handle
HandleNonEmpty(h) == h # EmptyList

\* register signalled OutOfMemory: the caller still owns the buffer and frees
\* it itself
CallerFreesUnregistered(fc, b) == [fc EXCEPT ![b] = @ + 1]

\* the foreign append failed: the previous handle stays valid
HandleAfterFailedAppend(h) == h

\* ---------------------------------------------------------------- Init
ReqInit ==
    /\ n \in 0..MaxHeaders
    /\ mode \in {"copy", "retain"}
    /\ pc = "loop"
    /\ k = 1
    /\ allocated = {}
    /\ header_strings = HeaderStringsInit
    /\ header_list = EmptyList
    /\ freeCount = [b \in Buffers |-> 0]
    /\ listFreeCalls = 0
    /\ nodesFreed = 0
    /\ deinitCalls = 0
    /\ releaseCalls = 0
    /\ transfer = "none"
    /\ err = "none"

PatchIdle ==
    /\ text = <<>>
    /\ lines = <<>>
    /\ ppc = "idle"
    /\ out = <<>>
    /\ printed = FALSE

Init == ReqInit /\ PatchIdle

\* --------------------------------------------------------------- actions
\* appendHeader, step 1: format "<key>: <value>" into a new buffer
Format ==
    /\ pc = "loop" /\ k <= n
    /\ \E ok \in BOOLEAN :
         IF ok
         THEN /\ allocated' = allocated \cup {k}
              /\ pc' = "register"
              /\ err' = err
         ELSE /\ allocated' = allocated
              /\ err' = "OutOfMemory"
              /\ pc' = DeferredOnExit("OutOfMemory")
    /\ UNCHANGED <<n, mode, k, header_strings, header_list, freeCount,
                   listFreeCalls, nodesFreed, deinitCalls, releaseCalls, transfer>>
    /\ UNCHANGED patchVars

\* appendHeader, step 2: register the buffer; on OutOfMemory the registry is
\* unchanged and the caller frees the buffer it still owns
Register ==
    /\ pc = "register"
    /\ \E ok \in BOOLEAN :
         IF ok
         THEN /\ header_strings' = RegistryAppend(header_strings, k)
              /\ pc' = TryRegister(TRUE)
              /\ UNCHANGED <<freeCount, err>>
         ELSE /\ header_strings' = header_strings
              /\ freeCount' = CallerFreesUnregistered(freeCount, k)
              /\ err' = "OutOfMemory"
              /\ pc' = TryRegister(FALSE)
    /\ UNCHANGED <<n, mode, k, allocated, header_list, listFreeCalls, nodesFreed,
                   deinitCalls, releaseCalls, transfer>>
    /\ UNCHANGED patchVars

\* appendHeader, step 3: the foreign list-append primitive; on failure the
\* previous handle stays valid
ForeignAppend ==
    /\ pc = "append"
    /\ \E ok \in BOOLEAN :
         IF ok
         THEN /\ header_list' = Append(header_list, k)
              /\ k' = k + 1
              /\ pc' = "loop"
              /\ err' = err
         ELSE /\ header_list' = HandleAfterFailedAppend(header_list)
              /\ k' = k
              /\ err' = "ForeignAppendFailed"
              /\ pc' = DeferredOnExit("ForeignAppendFailed")
    /\ UNCHANGED <<n, mode, allocated, header_strings, freeCount, listFreeCalls,
                   nodesFreed, deinitCalls, releaseCalls, transfer>>
    /\ UNCHANGED patchVars

\* all headers appended: the transfer call borrows currentList()
StartTransfer ==
    /\ pc = "loop" /\ k > n
    /\ transfer' = "running"
    /\ pc' = "transfer"
    /\ UNCHANGED <<n, mode, k, allocated, header_strings, header_list, freeCount,
                   listFreeCalls, nodesFreed, deinitCalls, releaseCalls, err>>
    /\ UNCHANGED patchVars

\* the transfer call returns, with success or with an error
FinishTransfer ==
    /\ pc = "transfer"
    /\ \E r \in {"ok", "failed"} :
         /\ transfer' = r
         /\ pc' = DeferredOnExit(r)
    /\ UNCHANGED <<n, mode, k, allocated, header_strings, header_list, freeCount,
                   listFreeCalls, nodesFreed, deinitCalls, releaseCalls, err>>
    /\ UNCHANGED patchVars

\* the deferred block of header_strings: free every item, deinit
ReleaseAll ==
    /\ ReleaseAllEnabled
    /\ freeCount' = FreeItems(freeCount, header_strings)
    /\ header_strings' = <<>>
    /\ deinitCalls' = deinitCalls + 1
    /\ pc' = "exit_list"
    /\ UNCHANGED <<n, mode, k, allocated, header_list, listFreeCalls, nodesFreed,
                   releaseCalls, transfer, err>>
    /\ UNCHANGED patchVars

\* release(): list-free on a non-empty handle, then the empty sentinel
ReleaseBody ==
    /\ IF HandleNonEmpty(header_list)
       THEN /\ listFreeCalls' = listFreeCalls + 1
            /\ nodesFreed' = nodesFreed + Len(header_list)
       ELSE UNCHANGED <<listFreeCalls, nodesFreed>>
    /\ header_list' = EmptyList
    /\ releaseCalls' = releaseCalls + 1

\* the deferred `if (header_list)` statement, the last one to run
Release ==
    /\ pc = "exit_list"
    /\ ReleaseBody
    /\ pc' = "done"
    /\ UNCHANGED <<n, mode, k, allocated, header_strings, freeCount, deinitCalls,
                   transfer, err>>
    /\ UNCHANGED patchVars

\* a further release() on the same adapter
ReleaseAgain ==
    /\ pc = "done"
    /\ releaseCalls < MaxReleaseCalls
    /\ ReleaseBody
    /\ UNCHANGED <<n, mode, pc, k, allocated, header_strings, freeCount,
                   deinitCalls, transfer, err>>
    /\ UNCHANGED patchVars

ScopeStep ==
    \/ Format
    \/ Register
    \/ ForeignAppend
    \/ StartTransfer
    \/ FinishTransfer
    \/ ReleaseAll
    \/ Release

Next ==
    \/ Format
    \/ Register
    \/ ForeignAppend
    \/ StartTransfer
    \/ FinishTransfer
    \/ ReleaseAll
    \/ Release
    \/ ReleaseAgain

Spec == Init /\ [][Next]_vars

\* the scope is synchronous code: it keeps running until it has exited
FairSpec == Init /\ [][Next]_vars /\ WF_vars(ScopeStep)

TotalFrees == SeqSum(freeCount)

\* ============================================================ claims, part 1
BeforeTeardown == pc \in {"loop", "register", "append", "transfer", "exit"}

\* C1: when all N headers were appended successfully, exactly the N buffers
\* are in the registry while the transfer call runs, and after the combined
\* teardown each of them has been freed exactly once: N frees in total, no
\* buffer freed zero times, none freed twice.
C1_ExactlyOnce ==
    /\ (pc = "transfer" =>
           /\ Len(header_strings) = n
           /\ Range(header_strings) = 1..n)
    /\ (pc = "done" /\ err = "none" =>
           /\ \A b \in 1..n : freeCount[b] = 1
           /\ \A b \in Buffers \ (1..n) : freeCount[b] = 0
           /\ TotalFrees = n
           /\ header_strings = <<>>)

C1_Witness ==
    /\ pc = "done" /\ err = "none" /\ n >= 2
    /\ transfer = "ok"
    /\ TotalFrees = n

\* C2 as stated: a failure of appendHeader on header K (either kind) aborts
\* construction, teardown frees the K-1 earlier buffers once each and the
\* foreign list-free primitive is called exactly once.
C2_Original ==
    (pc = "done" /\ err # "none") =>
        /\ transfer = "none"
        /\ allocated \subseteq 1..k
        /\ \A b \in 1..(k - 1) : freeCount[b] = 1
        /\ nodesFreed = k - 1
        /\ listFreeCalls = 1

\* C2 (amended): a failure of appendHeader on header K (either kind) aborts
\* construction, teardown frees the K-1 earlier buffers once each and frees
\* the K-1 nodes of the partial list with exactly one call of the list-free
\* primitive when K >= 2; when K = 1 the handle is still the empty sentinel
\* and the primitive is not called.
C2_PartialTeardown ==
    (pc = "done" /\ err # "none") =>
        /\ transfer = "none"
        /\ allocated \subseteq 1..k
        /\ \A b \in 1..(k - 1) : freeCount[b] = 1
        /\ \A b \in Buffers : freeCount[b] <= 1
        /\ nodesFreed = k - 1
        /\ listFreeCalls = (IF k >= 2 THEN 1 ELSE 0)
        /\ header_list = EmptyList
        /\ header_strings = <<>>

C2_Witness ==
    /\ pc = "done" /\ err = "OutOfMemory"
    /\ k = 3 /\ n >= 3
    /\ nodesFreed = 2 /\ listFreeCalls = 1
    /\ freeCount[1] = 1 /\ freeCount[2] = 1

\* C3: a ForeignAppendFailed on header K stops construction with K buffers
\* registered and K-1 list nodes, no later header is formatted, and teardown
\* frees exactly those K buffers and the (K-1)-node list (second of three:
\* 2 buffers, 1 node, one list-free call).
C3_ForeignAppendFailed ==
    (err = "ForeignAppendFailed") =>
        /\ allocated = 1..k
        /\ transfer = "none"
        /\ pc \in {"exit", "exit_list", "done"}
        /\ (pc = "exit" =>
               /\ Len(header_strings) = k
               /\ Range(header_strings) = 1..k
               /\ Len(header_list) = k - 1)
        /\ (pc = "done" =>
               /\ \A b \in 1..k : freeCount[b] = 1
               /\ TotalFrees = k
               /\ nodesFreed = k - 1
               /\ listFreeCalls = (IF k >= 2 THEN 1 ELSE 0)
               /\ header_list = EmptyList)

C3_Witness ==
    /\ err = "ForeignAppendFailed" /\ pc = "done"
    /\ n = 3 /\ k = 2
    /\ allocated = {1, 2}
    /\ TotalFrees = 2 /\ nodesFreed = 1 /\ listFreeCalls = 1

\* C4: the list-free primitive is called at most once per adapter, a
\* release() leaves the handle at the empty sentinel, and a release() after
\* the first one changes nothing but the count of calls.
C4_ReleaseIdempotent ==
    [][ /\ listFreeCalls' <= 1
        /\ (releaseCalls' = releaseCalls + 1 => header_list' = EmptyList)
        /\ (releaseCalls >= 1 /\ releaseCalls' = releaseCalls + 1 =>
               UNCHANGED <<n, mode, pc, k, allocated, header_strings, header_list,
                           freeCount, listFreeCalls, nodesFreed, deinitCalls,
                           transfer, err>>) ]_vars

C4_Witness ==
    /\ releaseCalls = 2
    /\ listFreeCalls = 1
    /\ nodesFreed >= 2

\* C5: while the transfer call is running no buffer has been freed and the
\* list has not been freed; once a teardown step has run, the transfer call
\* has returned or was never started because construction failed.  Holds for
\* a foreign append that copies and for one that retains the pointer.
C5_TransferBeforeTeardown ==
    /\ (transfer = "running" =>
           /\ \A i \in 1..Len(header_list) : freeCount[header_list[i]] = 0
           /\ \A i \in 1..Len(header_strings) : freeCount[header_strings[i]] = 0
           /\ TotalFrees = 0
           /\ deinitCalls = 0
           /\ listFreeCalls = 0
           /\ releaseCalls = 0
           /\ Len(header_list) = n)
    /\ (deinitCalls > 0 \/ releaseCalls > 0 =>
           \/ transfer \in {"ok", "failed"}
           \/ transfer = "none" /\ err # "none")

C5_Witness ==
    /\ mode = "retain"
    /\ pc = "done"
    /\ transfer = "failed"
    /\ nodesFreed >= 2
    /\ TotalFrees >= 2

TornDown ==
    /\ pc = "done"
    /\ header_strings = <<>>
    /\ deinitCalls = 1
    /\ header_list = EmptyList
    /\ releaseCalls >= 1
    /\ \A b \in allocated : freeCount[b] = 1

C8_Lockstep ==
    BeforeTeardown =>
        /\ Range(header_list) \subseteq Range(header_strings)
        /\ NoDuplicates(header_strings)
        /\ Len(header_strings) - Len(header_list) \in {0, 1}
        /\ (Len(header_strings) = Len(header_list) + 1 =>
               pc = "append" \/ err = "ForeignAppendFailed")
        /\ (pc = "append" =>
               /\ k \in Range(header_strings)
               /\ Len(header_strings) = Len(header_list) + 1)

C8_Witness ==
    /\ pc = "exit" /\ err = "ForeignAppendFailed"
    /\ Len(header_list) >= 1
    /\ Len(header_strings) = Len(header_list) + 1

\* ============================================================ Part 2
\* A text is a sequence of characters.  "D" stands for one occurrence of the
\* string 'defer if (header_list)', "A" for one occurrence of
\* 'header_list = c.curl_slist_append', "x" for any other text without a line
\* break, "NL" for the line feed and "CR" for the carriage return.
Chars == {"x", "D", "A", "NL", "CR"}

DeferMarker == "D"

AppendMarker == "A"

Texts == UNION {[1..m -> Chars] : m \in 0..MaxText}

Min(a, b) == IF a <= b THEN a ELSE b

\* open(..., 'r') reads with universal newlines: "\r\n" and a lone "\r" are
\* read as "\n"
RECURSIVE Translate(_)
Translate(t) ==
    IF t = <<>> THEN <<>>
    ELSE IF Head(t) = "CR"
         THEN <<"NL">> \o Translate(IF Len(t) >= 2 /\ t[2] = "NL"
                                     THEN Tail(Tail(t)) ELSE Tail(t))
         ELSE <<Head(t)>> \o Translate(Tail(t))

\* position of the first line break of t, or Len(t) when there is none
LineEnd(t) ==
    IF \E i \in 1..Len(t) : t[i] = "NL"
    THEN CHOOSE i \in 1..Len(t) : t[i] = "NL" /\ \A j \in 1..(i - 1) : t[j] # "NL"
    ELSE Len(t)

\* f.readlines(): the lines of the text read, each with its line break; the last
\* line has none when the text does not end with one
RECURSIVE ReadLines(_)
ReadLines(t) ==
    IF t = <<>> THEN <<>>
    ELSE <<SubSeq(t, 1, LineEnd(t))>> \o ReadLines(SubSeq(t, LineEnd(t) + 1, Len(t)))

\* f.writelines(lines): the strings one after the other, nothing added
RECURSIVE WriteLines(_)
WriteLines(ls) == IF ls = <<>> THEN <<>> ELSE Head(ls) \o WriteLines(Tail(ls))

\* `marker in line`
Contains(line, marker) == \E i \in 1..Len(line) : line[i] = marker

\* the index (from 0) at which the `for i, line in enumerate(lines)` loop
\* meets its `if`, or -1 when the loop ends without a break
FirstIndex(ls, marker) ==
    IF \E j \in 1..Len(ls) : Contains(ls[j], marker)
    THEN (CHOOSE j \in 1..Len(ls) :
             /\ Contains(ls[j], marker)
             /\ \A h \in 1..(j - 1) : ~Contains(ls[h], marker)) - 1
    ELSE -1

\* list.insert(idx, x), idx >= 0 counted from 0
ListInsert(ls, idx, x) ==
    SubSeq(ls, 1, Min(idx, Len(ls))) \o <<x>> \o SubSeq(ls, Min(idx, Len(ls)) + 1, Len(ls))

\* the eight strings inserted after the defer marker line
BlockLines ==
    << <<"NL">>,
       <<"var header_strings", "NL">>,
       <<"defer {", "NL">>,
       <<"for (header_strings.items)", "NL">>,
       <<"self.allocator.free(header_str);", "NL">>,
       <<"}", "NL">>,
       <<"header_strings.deinit();", "NL">>,
       <<"}", "NL">> >>

\* the string inserted before the append marker line
RegisterLine == <<"try header_strings.append(header_str);", "NL">>

DeferInsertBefore(i) == i

\* lines.insert(i + 1, ...) ... lines.insert(i + 8, ...)
DeferInsertPos(i) == i + 1

RECURSIVE InsertAll(_, _, _)
InsertAll(ls, idx, items) ==
    IF items = <<>> THEN ls
    ELSE InsertAll(ListInsert(ls, idx, Head(items)), idx + 1, Tail(items))

PatchInit ==
    /\ text \in Texts
    /\ lines = <<>>
    /\ ppc = "read"
    /\ out = <<>>
    /\ printed = FALSE
    /\ n = 0
    /\ mode = "copy"
    /\ pc = "idle"
    /\ k = 1
    /\ allocated = {}
    /\ header_strings = HeaderStringsInit
    /\ header_list = EmptyList
    /\ freeCount = [b \in Buffers |-> 0]
    /\ listFreeCalls = 0
    /\ nodesFreed = 0
    /\ deinitCalls = 0
    /\ releaseCalls = 0
    /\ transfer = "none"
    /\ err = "none"

\* with open('src/curl.zig', 'r') as f: lines = f.readlines()
ReadFile ==
    /\ ppc = "read"
    /\ lines' = ReadLines(Translate(text))
    /\ ppc' = "defer_loop"
    /\ UNCHANGED <<text, out, printed>>
    /\ UNCHANGED reqVars

\* the first loop: the block goes after the first line with the defer marker
DeferLoop ==
    /\ ppc = "defer_loop"
    /\ lines' = IF FirstIndex(lines, DeferMarker) >= 0
                THEN InsertAll(lines, DeferInsertPos(FirstIndex(lines, DeferMarker)),
                               BlockLines)
                ELSE lines
    /\ ppc' = "append_loop"
    /\ UNCHANGED <<text, out, printed>>
    /\ UNCHANGED reqVars

\* the second loop: the register line goes before the first line with the
\* append marker
AppendLoop ==
    /\ ppc = "append_loop"
    /\ lines' = IF FirstIndex(lines, AppendMarker) >= 0
                THEN ListInsert(lines, FirstIndex(lines, AppendMarker), RegisterLine)
                ELSE lines
    /\ ppc' = "write"
    /\ UNCHANGED <<text, out, printed>>
    /\ UNCHANGED reqVars

\* with open('src/curl.zig', 'w') as f: f.writelines(lines)
WriteBack ==
    /\ ppc = "write"
    /\ out' = WriteLines(lines)
    /\ ppc' = "print"
    /\ UNCHANGED <<text, lines, printed>>
    /\ UNCHANGED reqVars

\* print('Header management fixed successfully')
PrintSuccess ==
    /\ ppc = "print"
    /\ printed' = TRUE
    /\ ppc' = "end"
    /\ UNCHANGED <<text, lines, out>>
    /\ UNCHANGED reqVars

PatchNext ==
    \/ ReadFile
    \/ DeferLoop
    \/ AppendLoop
    \/ WriteBack
    \/ PrintSuccess

PatchSpec == PatchInit /\ [][PatchNext]_vars

\* ============================================================ claims, part 2
HasBlock(t) == \A j \in 2..Len(BlockLines) : Contains(t, BlockLines[j][1])

HasAnyOfBlock(t) == \E j \in 2..Len(BlockLines) : Contains(t, BlockLines[j][1])

HasRegister(t) == Contains(t, RegisterLine[1])

\* C9: the script applies both edits or none: when it reports success the
\* written file has the registry declaration with its deferred block and the
\* register call, or it has neither.
C9_BothOrNeither ==
    printed =>
        \/ HasBlock(out) /\ HasRegister(out)
        \/ ~HasAnyOfBlock(out) /\ ~HasRegister(out)

\* the line without its line break
Strip(line) ==
    IF line # <<>> /\ line[Len(line)] = "NL" THEN SubSeq(line, 1, Len(line) - 1) ELSE line

StripAll(ls) == [j \in 1..Len(ls) |-> Strip(ls[j])]

\* the lines the script reads
InLines == ReadLines(Translate(text))

\* the lines of the file as it is, a line ending at each line feed
RawLines == ReadLines(text)

\* 1-based position of the first line of ls with the marker, 0 if none
FirstLine(ls, marker) == FirstIndex(ls, marker) + 1

\* ls with the block right after its first defer marker line (line d) and the
\* register line right before its first append marker line (line a)
ExpectedAt(ls, a, d) ==
    IF a <= d
    THEN SubSeq(ls, 1, a - 1) \o <<RegisterLine>> \o SubSeq(ls, a, d)
         \o BlockLines \o SubSeq(ls, d + 1, Len(ls))
    ELSE SubSeq(ls, 1, d) \o BlockLines \o SubSeq(ls, d + 1, a - 1)
         \o <<RegisterLine>> \o SubSeq(ls, a, Len(ls))

Expected(ls) == ExpectedAt(ls, FirstLine(ls, AppendMarker), FirstLine(ls, DeferMarker))

BothMarkers == Contains(text, DeferMarker) /\ Contains(text, AppendMarker)

\* the first defer marker line of ls is its last line and has no line break
DeferLineUnterminated(ls) ==
    /\ FirstLine(ls, DeferMarker) >= 1
    /\ ls[FirstLine(ls, DeferMarker)][Len(ls[FirstLine(ls, DeferMarker)])] # "NL"

\* C10 as stated: for every input with both markers the written file is the
\* input with exactly the 9 lines inserted (block after the first defer marker
\* line, register line before the first append marker line) and nothing else
\* changed.
C10_Original ==
    (ppc = "end" /\ BothMarkers) =>
        /\ Len(ReadLines(out)) = Len(RawLines) + 9
        /\ out = WriteLines(Expected(RawLines))

\* C10 (amended): for every input with both markers, the written file is the
\* input as read (each "\r\n" and each lone "\r" turned into "\n", so unchanged
\* when the file has no carriage return) with exactly the 9 lines inserted,
\* provided the first defer marker line ends with a line break.  When that
\* line is the unterminated last line of the file, the inserted blank line
\* only ends it: the file gains 8 lines, the register line and the 7 non-blank
\* block lines right after the marker line.
C10_NineLinesInserted ==
    (ppc = "end" /\ BothMarkers) =>
        IF ~DeferLineUnterminated(InLines)
        THEN /\ Len(ReadLines(out)) = Len(InLines) + 9
             /\ out = WriteLines(Expected(InLines))
             /\ (~Contains(text, "CR") => out = WriteLines(Expected(RawLines)))
        ELSE /\ Len(ReadLines(out)) = Len(InLines) + 8
             /\ StripAll(ReadLines(out)) =
                   StripAll(SubSeq(InLines, 1, FirstLine(InLines, AppendMarker) - 1)
                            \o <<RegisterLine>>
                            \o SubSeq(InLines, FirstLine(InLines, AppendMarker),
                                      Len(InLines))
                            \o Tail(BlockLines))

C10_Witness ==
    /\ ppc = "end" /\ BothMarkers
    /\ ~DeferLineUnterminated(InLines)
    /\ FirstLine(InLines, AppendMarker) < FirstLine(InLines, DeferMarker)
    /\ \E j \in (FirstLine(InLines, DeferMarker) + 1)..Len(InLines) :
           Contains(InLines[j], DeferMarker)
    /\ out = WriteLines(Expected(InLines))
    /\ Len(ReadLines(out)) = Len(RawLines) + 9

====
